---------------------------- MODULE Spec2Model ----------------------------
(***************************************************************************)
(* A model of winlsa (src/winlsa.go) and of its example program            *)
(* (src/unnamed/part_000): the marshaling of native LSA buffers into Go    *)
(* values, and the calls made into the LSA interface.                      *)
(***************************************************************************)
EXTENDS Integers, Sequences, FiniteSets, TLC

(***************************************************************************)
(* 64-bit machine words.  TLC's integers are 32 bits wide, so a word is a  *)
(* little-endian sequence of 16-bit limbs: a uint64 has 4 limbs, and the   *)
(* same operators on 6 limbs give arithmetic wide enough to be exact.      *)
(***************************************************************************)
LimbBase == 2^16

Uint64Limbs == 64 \div 16

WideLimbs == Uint64Limbs + 2

RECURSIVE AddLimbs(_, _, _)
\* a + b + carry, modulo LimbBase^Len(a)
AddLimbs(a, b, carry) ==
    IF a = <<>> THEN <<>>
    ELSE LET s == Head(a) + Head(b) + carry
         IN  <<s % LimbBase>> \o AddLimbs(Tail(a), Tail(b), s \div LimbBase)

RECURSIVE SubLimbs(_, _, _)
\* a - b - borrow, modulo LimbBase^Len(a): the wrap-around of unsigned subtraction
SubLimbs(a, b, borrow) ==
    IF a = <<>> THEN <<>>
    ELSE LET d == Head(a) - Head(b) - borrow
         IN  IF d < 0
             THEN <<d + LimbBase>> \o SubLimbs(Tail(a), Tail(b), 1)
             ELSE <<d>> \o SubLimbs(Tail(a), Tail(b), 0)

RECURSIVE MulSmallLimbs(_, _, _)
\* a * k + carry, modulo LimbBase^Len(a), for a small k: the wrap-around of
\* Go's integer multiplication
MulSmallLimbs(a, k, carry) ==
    IF a = <<>> THEN <<>>
    ELSE LET p == Head(a) * k + carry
         IN  <<p % LimbBase>> \o MulSmallLimbs(Tail(a), k, p \div LimbBase)

\* the n-limb word of a small natural number
WordOf(k, n) == [i \in 1..n |-> IF i = 1 THEN k % LimbBase
                                ELSE IF i = 2 THEN k \div LimbBase ELSE 0]

\* the sign bit of a word read as a two's-complement integer
IsNegative(a) == a[Len(a)] >= LimbBase \div 2

\* a word read as a signed integer, widened to n limbs
SignExtend(a, n) ==
    [i \in 1..n |-> IF i <= Len(a) THEN a[i]
                    ELSE IF IsNegative(a) THEN LimbBase - 1 ELSE 0]

\* a word read as an unsigned integer, widened to n limbs
ZeroExtend(a, n) == [i \in 1..n |-> IF i <= Len(a) THEN a[i] ELSE 0]

(***************************************************************************)
(* timeFromUint64                                                          *)
(***************************************************************************)
\* const windowsEpoch = 116444736000000000 = 0x019DB1DED53E8000
windowsEpoch == <<32768, 54590, 45534, 413>>

\* ^uint64(0)>>1 = 0x7FFFFFFFFFFFFFFF
NeverTime == <<LimbBase - 1, LimbBase - 1, LimbBase - 1, (LimbBase \div 2) - 1>>

ZeroWord == WordOf(0, Uint64Limbs)

\* time.Time{}
ZeroTime == [isZero |-> TRUE, unixNano |-> ZeroWord]

\* time.Unix(0, nsec): the instant nsec (an int64) nanoseconds from the Unix epoch
TimeUnix(nsec) == [isZero |-> FALSE, unixNano |-> nsec]

timeFromUint64(nsec) ==
    IF nsec = ZeroWord \/ nsec = NeverTime THEN ZeroTime
    ELSE TimeUnix(MulSmallLimbs(SubLimbs(nsec, windowsEpoch, 0), 100, 0))

\* (v - windowsEpoch) * 100 computed without wrap-around, as a signed wide word
ExactUnixNano(v) ==
    MulSmallLimbs(SubLimbs(ZeroExtend(v, WideLimbs),
                           ZeroExtend(windowsEpoch, WideLimbs), 0), 100, 0)

\* file times around which the inputs are taken
TimeAnchors ==
    { ZeroWord,                              \* 1601-01-01
      <<14418, 23133, 970, 86>>,             \* windowsEpoch - (2^63-1) \div 100
      windowsEpoch,                          \* 1970-01-01
      <<32768, 39712, 33483, 472>>,          \* 133000000000000000 (2022)
      <<51118, 20511, 24563, 741>>,          \* windowsEpoch + (2^63-1) \div 100
      NeverTime,                             \* 2^63 - 1
      <<LimbBase - 1, LimbBase - 1, LimbBase - 1, LimbBase - 1>> }

TimeSpread == 4

TimeInputs ==
    { AddLimbs(a, WordOf(k, Uint64Limbs), 0) : a \in TimeAnchors, k \in 0..TimeSpread }
    \cup { SubLimbs(a, WordOf(k, Uint64Limbs), 0) : a \in TimeAnchors, k \in 0..TimeSpread }

(***************************************************************************)
(* LogonType                                                               *)
(***************************************************************************)
LogonTypeSystem == 0

LogonTypeInteractive == 2

LogonTypeNetwork == 3

LogonTypeBatch == 4

LogonTypeService == 5

LogonTypeProxy == 6

LogonTypeUnlock == 7

LogonTypeNetworkCleartext == 8

LogonTypeNewCredentials == 9

LogonTypeRemoteInteractive == 10

LogonTypeCachedInteractive == 11

LogonTypeCachedRemoteInteractive == 12

LogonTypeCachedUnlock == 13

DigitChar(d) ==
    CASE d = 0 -> "0" [] d = 1 -> "1" [] d = 2 -> "2" [] d = 3 -> "3"
      [] d = 4 -> "4" [] d = 5 -> "5" [] d = 6 -> "6" [] d = 7 -> "7"
      [] d = 8 -> "8" [] d = 9 -> "9"

RECURSIVE FormatDecimal(_)
\* fmt's %d of a non-negative integer
FormatDecimal(n) ==
    IF n < 10 THEN DigitChar(n)
    ELSE FormatDecimal(n \div 10) \o DigitChar(n % 10)

\* fmt.Sprintf("Undefined LogonType(%d)", lt)
UndefinedLogonType(lt) == "Undefined LogonType(" \o FormatDecimal(lt) \o ")"

\* the constant block written without its blank identifier: every name after
\* System sits one value too low
LogonTypeString_NoGap(lt) ==
    CASE lt = LogonTypeSystem -> "System"
      [] lt = LogonTypeInteractive - 1 -> "Interactive"
      [] lt = LogonTypeNetwork - 1 -> "Network"
      [] lt = LogonTypeBatch - 1 -> "Batch"
      [] lt = LogonTypeService - 1 -> "Service"
      [] lt = LogonTypeProxy - 1 -> "Proxy"
      [] lt = LogonTypeUnlock - 1 -> "Unlock"
      [] lt = LogonTypeNetworkCleartext - 1 -> "NetworkCleartext"
      [] lt = LogonTypeNewCredentials - 1 -> "NewCredentials"
      [] lt = LogonTypeRemoteInteractive - 1 -> "RemoteInteractive"
      [] lt = LogonTypeCachedInteractive - 1 -> "CachedInteractive"
      [] lt = LogonTypeCachedRemoteInteractive - 1 -> "CachedRemoteInteractive"
      [] lt = LogonTypeCachedUnlock - 1 -> "CachedUnlock"
      [] OTHER -> UndefinedLogonType(lt)

\* func (lt LogonType) String() string
LogonTypeString(lt) ==
    CASE lt = LogonTypeSystem -> "System"
      [] lt = LogonTypeInteractive -> "Interactive"
      [] lt = LogonTypeNetwork -> "Network"
      [] lt = LogonTypeBatch -> "Batch"
      [] lt = LogonTypeService -> "Service"
      [] lt = LogonTypeProxy -> "Proxy"
      [] lt = LogonTypeUnlock -> "Unlock"
      [] lt = LogonTypeNetworkCleartext -> "NetworkCleartext"
      [] lt = LogonTypeNewCredentials -> "NewCredentials"
      [] lt = LogonTypeRemoteInteractive -> "RemoteInteractive"
      [] lt = LogonTypeCachedInteractive -> "CachedInteractive"
      [] lt = LogonTypeCachedRemoteInteractive -> "CachedRemoteInteractive"
      [] lt = LogonTypeCachedUnlock -> "CachedUnlock"
      [] OTHER -> UndefinedLogonType(lt)

MaxLogonTypeInput == 16

\* the logon types tried: the small values, and some large ones up to the
\* largest integer TLC holds
LogonTypeInputs == 0..MaxLogonTypeInput \cup {100, 65536, 2147483647}

(***************************************************************************)
(* stringFromLSAString                                                     *)
(*                                                                         *)
(* An LSA_UNICODE_STRING is a descriptor: Length (in BYTES, not counting a *)
(* terminator), and Buffer, the address of the UTF-16 code units.  The     *)
(* model keeps with the descriptor the native memory found at Buffer:      *)
(* mem[i] is the i-th 16-bit unit there, and nothing is mapped behind      *)
(* Len(mem) units, so that reading further is an access violation.         *)
(***************************************************************************)
NullBuffer == 0

\* the result of a conversion: the string's runes, how many 16-bit units of
\* native memory were read, and whether a read hit unmapped memory
StringResult(runes, unitsRead, fault) ==
    [runes |-> runes, unitsRead |-> unitsRead, fault |-> fault]

IsHighSurrogate(u) == u >= 55296 /\ u < 56320

IsLowSurrogate(u) == u >= 56320 /\ u < 57344

RECURSIVE Utf16Decode(_)
\* unicode/utf16.Decode, by which syscall.UTF16ToString makes its string: a
\* surrogate pair is one rune, a lone surrogate U+FFFD
Utf16Decode(units) ==
    IF units = <<>> THEN <<>>
    ELSE IF IsHighSurrogate(units[1]) /\ Len(units) >= 2 /\ IsLowSurrogate(units[2])
         THEN <<(units[1] - 55296) * 1024 + (units[2] - 56320) + 65536>>
              \o Utf16Decode(Tail(Tail(units)))
         ELSE IF IsHighSurrogate(units[1]) \/ IsLowSurrogate(units[1])
              THEN <<65533>> \o Utf16Decode(Tail(units))
              ELSE <<units[1]>> \o Utf16Decode(Tail(units))

RECURSIVE ScanToNul(_, _, _)
\* syscall.UTF16ToString's scan of a slice of sliceLen units laid over mem:
\* the index of the last unit it reads, starting at unit i.  It stops at the
\* first NUL, at the end of the slice, or at the first unit that is not mapped.
ScanToNul(mem, sliceLen, i) ==
    IF i > sliceLen THEN i - 1
    ELSE IF i > Len(mem) THEN i
    ELSE IF mem[i] = 0 THEN i
    ELSE ScanToNul(mem, sliceLen, i + 1)

\* syscall.UTF16ToString(data) for the slice data of sliceLen units at mem
UTF16ToString(mem, sliceLen) ==
    LET last == ScanToNul(mem, sliceLen, 1)
    IN  IF last > Len(mem)
        THEN StringResult(<<>>, last, TRUE)
        ELSE LET n == IF last >= 1 /\ mem[last] = 0 THEN last - 1 ELSE last
             IN  StringResult(Utf16Decode(SubSeq(mem, 1, n)), last, FALSE)

\* func stringFromLSAString(s lsa.LSA_UNICODE_STRING) string
\* sh.Len = int(s.Length): the slice of uint16 is given Length ELEMENTS
stringFromLSAString(s) ==
    IF s.Buffer = NullBuffer \/ s.Length = 0 THEN StringResult(<<>>, 0, FALSE)
    ELSE UTF16ToString(s.mem, s.Length)

\* an LSA_UNICODE_STRING with the memory at its Buffer
LsaString(length, buffer, mem) == [Length |-> length, Buffer |-> buffer, mem |-> mem]

MaxMemUnits == 3

\* code units tried: NUL, 'a', 'b', and a surrogate pair
CodeUnits == {0, 97, 98, 55357, 56832}

MemContents == UNION { [1..n -> CodeUnits] : n \in 0..MaxMemUnits }

\* the descriptors the operating system may hand over: a null Buffer, or a
\* Buffer whose Length bytes are mapped
LsaStrings ==
    { LsaString(len, NullBuffer, <<>>) : len \in {0, 2} }
    \cup UNION { { LsaString(2 * k, 1, mem) : k \in 0..Len(mem) } : mem \in MemContents }

(***************************************************************************)
(* Go values and native records                                            *)
(***************************************************************************)
\* a nil error
NoError == "nil"

\* where a slice, a string or a pointer keeps its bytes: in memory of the Go
\* runtime, or in the native buffer LSA handed over
GoMemory == "go"

NativeMemory == "native"

\* a string made by the Go runtime
GoString(runes) == [backing |-> GoMemory, runes |-> runes]

\* a nil []LUID, and a slice allocated by make
NilSlice == [isNil |-> TRUE, backing |-> GoMemory, elems |-> <<>>]

GoSlice(elems) == [isNil |-> FALSE, backing |-> GoMemory, elems |-> elems]

\* a nil *windows.SID, a SID inside the native buffer, and a SID copied out
NilSid == [isNil |-> TRUE, backing |-> GoMemory, value |-> 0]

NativeSid(v) == [isNil |-> FALSE, backing |-> NativeMemory, value |-> v]

\* (*windows.SID).Copy: a SID in Go memory, or nil and the error of CopySid
SidCopy(sid, err) ==
    IF err = NoError
    THEN [sid |-> [isNil |-> FALSE, backing |-> GoMemory, value |-> sid.value],
          err |-> NoError]
    ELSE [sid |-> NilSid, err |-> err]

\* a nil *LogonSessionData, and a pointer to a struct literal
NilData == [isNil |-> TRUE]

StringFields ==
    { "UserName", "LogonDomain", "AuthenticationPackage", "LogonServer",
      "DnsDomainName", "Upn", "LogonScript", "ProfilePath", "HomeDirectory",
      "HomeDirectoryDrive" }

\* whether a conversion of one of the record's strings reads unmapped memory
ConversionFaults(data) == \E f \in StringFields : stringFromLSAString(data[f]).fault

\* &LogonSessionData{...}: the struct literal, with the SID given
SessionDataLiteral(data, sid) ==
    [ isNil |-> FALSE,
      UserName |-> GoString(stringFromLSAString(data.UserName).runes),
      LogonDomain |-> GoString(stringFromLSAString(data.LogonDomain).runes),
      AuthenticationPackage |->
          GoString(stringFromLSAString(data.AuthenticationPackage).runes),
      LogonType |-> data.LogonType,
      Session |-> data.Session,
      Sid |-> sid,
      LogonTime |-> timeFromUint64(data.LogonTime),
      LogonServer |-> GoString(stringFromLSAString(data.LogonServer).runes),
      DnsDomainName |-> GoString(stringFromLSAString(data.DnsDomainName).runes),
      Upn |-> GoString(stringFromLSAString(data.Upn).runes),
      UserFlags |-> data.UserFlags,
      LogonScript |-> GoString(stringFromLSAString(data.LogonScript).runes),
      ProfilePath |-> GoString(stringFromLSAString(data.ProfilePath).runes),
      HomeDirectory |-> GoString(stringFromLSAString(data.HomeDirectory).runes),
      HomeDirectoryDrive |->
          GoString(stringFromLSAString(data.HomeDirectoryDrive).runes),
      LogoffTime |-> timeFromUint64(data.LogoffTime),
      KickOffTime |-> timeFromUint64(data.KickOffTime),
      PasswordLastSet |-> timeFromUint64(data.PasswordLastSet),
      PasswordCanChange |-> timeFromUint64(data.PasswordCanChange),
      PasswordMustChange |-> timeFromUint64(data.PasswordMustChange),
      LastSuccessfulLogon |-> timeFromUint64(data.LastLogonInfo.LastSuccessfulLogon),
      LastFailedLogon |-> timeFromUint64(data.LastLogonInfo.LastFailedLogon),
      FailedAttemptCountSinceLastSuccessfulLogon |->
          data.LastLogonInfo.FailedAttemptCountSinceLastSuccessfulLogon ]

\* the SID kept as the pointer into the native record, without a copy
newLogonSessionData_AliasSid(data, copyErr) == SessionDataLiteral(data, data.Sid)

\* the native pointer kept when the copy fails
newLogonSessionData_FallBack(data, copyErr) ==
    SessionDataLiteral(data,
        IF ~data.Sid.isNil /\ copyErr = NoError
        THEN SidCopy(data.Sid, copyErr).sid ELSE data.Sid)

\* func newLogonSessionData(data *lsa.SECURITY_LOGON_SESSION_DATA) *LogonSessionData
\* copyErr is the error data.Sid.Copy() gives if it is called
newLogonSessionData(data, copyErr) ==
    SessionDataLiteral(data,
        IF ~data.Sid.isNil THEN SidCopy(data.Sid, copyErr).sid ELSE NilSid)

\* the zero value of a LUID
ZeroLuid == 0

RECURSIVE CopyLoop(_, _, _, _)
\* for idx := first; idx < cnt; idx++ { luids[idx] = data[idx] }
\* (idx counts from 0 in the code, the sequences from 1)
CopyLoop(luids, data, idx, cnt) ==
    IF idx < cnt
    THEN CopyLoop([luids EXCEPT ![idx + 1] = data[idx + 1]], data, idx + 1, cnt)
    ELSE luids

\* the loop started one element late
CopyLUIDs_SkipFirst(data, cnt) ==
    GoSlice(CopyLoop([i \in 1..cnt |-> ZeroLuid], data, 1, cnt))

\* luids := make([]LUID, cnt), filled from the slice laid over the buffer
CopyLUIDs(data, cnt) ==
    GoSlice(CopyLoop([i \in 1..cnt |-> ZeroLuid], data, 0, cnt))

\* the partial result kept beside the error
ReturnAfterFree_KeepData(val, nilVal, err) == [val |-> val, err |-> err]

\* err = lsa.LsaFreeReturnBuffer(...); if err != nil { return nil, err };
\* return val, nil
ReturnAfterFree(val, nilVal, err) ==
    IF err # NoError THEN [val |-> nilVal, err |-> err]
    ELSE [val |-> val, err |-> NoError]

(***************************************************************************)
(* What the operating system may answer                                    *)
(***************************************************************************)
NumLuids == 3

MaxSessions == 2

MaxInvocations == 3

LUIDs == 1..NumLuids

RECURSIVE DistinctSeqs(_, _)
\* the sequences of at most n different elements of S
DistinctSeqs(S, n) ==
    IF n = 0 THEN {<<>>}
    ELSE {<<>>} \cup UNION { { <<x>> \o t : t \in DistinctSeqs(S \ {x}, n - 1) } : x \in S }

\* the arrays LsaEnumerateLogonSessions may hand over (cnt is their length)
LuidArrays == DistinctSeqs(LUIDs, MaxSessions)

EnumerateErrors == {"STATUS_ACCESS_DENIED"}

GetDataErrors == {"STATUS_NO_SUCH_LOGON_SESSION"}

FreeErrors == {"STATUS_INVALID_HANDLE"}

CopySidErrors == {"ERROR_INVALID_SID"}

\* "a" with a terminator behind it, with another unit and then a terminator
\* behind it, and with nothing mapped behind it
TerminatedString == LsaString(2, 1, <<97, 0>>)

FollowedString == LsaString(2, 1, <<97, 98, 0>>)

UnterminatedString == LsaString(2, 1, <<97>>)

NullString == LsaString(0, NullBuffer, <<>>)

\* 133000000000000000, a file time of 2022
SomeFileTime == <<32768, 39712, 33483, 472>>

NativeSession(user, sid, logonType, logonTime) ==
    [ UserName |-> user,
      LogonDomain |-> TerminatedString,
      AuthenticationPackage |-> TerminatedString,
      LogonType |-> logonType,
      Session |-> 1,
      Sid |-> sid,
      LogonTime |-> logonTime,
      LogonServer |-> TerminatedString,
      DnsDomainName |-> NullString,
      Upn |-> NullString,
      UserFlags |-> 0,
      LastLogonInfo |-> [ LastSuccessfulLogon |-> ZeroWord,
                          LastFailedLogon |-> ZeroWord,
                          FailedAttemptCountSinceLastSuccessfulLogon |-> 0 ],
      LogonScript |-> NullString,
      ProfilePath |-> NullString,
      HomeDirectory |-> NullString,
      HomeDirectoryDrive |-> NullString,
      LogoffTime |-> NeverTime,
      KickOffTime |-> NeverTime,
      PasswordLastSet |-> SomeFileTime,
      PasswordCanChange |-> SomeFileTime,
      PasswordMustChange |-> NeverTime ]

\* the records LsaGetLogonSessionData may hand over
NativeSessions ==
    { NativeSession(user, sid, logonType, logonTime) :
        user \in {TerminatedString, FollowedString, UnterminatedString, NullString},
        sid \in {NilSid, NativeSid(1)},
        logonType \in {LogonTypeSystem, LogonTypeInteractive},
        logonTime \in {ZeroWord, SomeFileTime} }

(***************************************************************************)
(* State                                                                   *)
(*                                                                         *)
(* pc is the place of the one goroutine inside the package: "idle" outside *)
(* any call, else the statement it is about to run.  ret is what the last  *)
(* call returned, trace what that call did to the LSA interface and to its *)
(* native buffer, in order.  nbuf counts the buffers LSA has handed over   *)
(* and freeCalls[b] the calls of LsaFreeReturnBuffer on buffer b.          *)
(***************************************************************************)
VARIABLES nsec, tm, lt, ltName, lsaStr, goStr,
          pc, arg, cnt, buffer, native, luids, sessionData, ret, trace,
          nbuf, ncalls, freeCalls,
          mpc, mluids, idx, exit, mcalls, stdout

pureVars == <<nsec, tm, lt, ltName, lsaStr, goStr>>

libVars == <<pc, arg, cnt, buffer, native, luids, sessionData, ret, trace,
             nbuf, ncalls, freeCalls>>

mainVars == <<mpc, mluids, idx, exit, mcalls, stdout>>

vars == <<pureVars, libVars, mainVars>>

\* the result of a call that has not been made yet, and of one that has
NotYet == [pending |-> TRUE]

Returned(v) == [pending |-> FALSE, val |-> v]

\* what the buffer of the running call holds
NoNative == [kind |-> "none"]

NativeArray(a) == [kind |-> "array", array |-> a]

NativeRecord(r) == [kind |-> "record", record |-> r]

\* the entries of trace
LsaCall(fn, buf, err) == [ev |-> fn, buf |-> buf, err |-> err]

BufferRead(buf) == [ev |-> "read", buf |-> buf, err |-> NoError]

SidCopyCall(buf, err) == [ev |-> "Sid.Copy", buf |-> buf, err |-> err]

PureIdle ==
    /\ nsec = ZeroWord /\ tm = NotYet
    /\ lt = <<0, 0>> /\ ltName = NotYet
    /\ lsaStr = NullString /\ goStr = NotYet

LibIdle ==
    /\ pc = "idle" /\ arg = ZeroLuid /\ cnt = 0 /\ buffer = 0
    /\ native = NoNative /\ luids = NilSlice /\ sessionData = NilData
    /\ ret = NotYet /\ trace = <<>>
    /\ nbuf = 0 /\ ncalls = 0 /\ freeCalls = <<>>

NoMain ==
    /\ mpc = "none" /\ mluids = <<>> /\ idx = 0 /\ exit = NotYet
    /\ mcalls = <<>> /\ stdout = <<>>

(***************************************************************************)
(* GetLogonSessions and GetLogonSessionData                                *)
(***************************************************************************)
\* a caller enters GetLogonSessions (op = "GetLogonSessions") or
\* GetLogonSessionData(&l): the locals are fresh
Enter(op, l) ==
    /\ pc = "idle"
    /\ pc' = IF op = "GetLogonSessions" THEN "enumerate" ELSE "get"
    /\ arg' = l
    /\ cnt' = 0 /\ buffer' = 0 /\ native' = NoNative
    /\ luids' = NilSlice /\ sessionData' = NilData
    /\ ret' = NotYet /\ trace' = <<>>
    /\ ncalls' = ncalls + 1
    /\ UNCHANGED <<nbuf, freeCalls>>

\* LSA allocates a buffer and hands it over
HandOver(content) ==
    /\ nbuf' = nbuf + 1
    /\ buffer' = nbuf + 1
    /\ freeCalls' = Append(freeCalls, 0)
    /\ native' = content

\* the call is left out
LsaFreeReturnBuffer_Skipped(buf, err) ==
    UNCHANGED <<freeCalls, trace>>

\* the call is made a second time
LsaFreeReturnBuffer_Twice(buf, err) ==
    /\ freeCalls' = [freeCalls EXCEPT ![buf] = @ + 2]
    /\ trace' = trace \o <<LsaCall("LsaFreeReturnBuffer", buf, err),
                           LsaCall("LsaFreeReturnBuffer", buf, err)>>

\* err = lsa.LsaFreeReturnBuffer(buffer)
LsaFreeReturnBuffer(buf, err) ==
    /\ freeCalls' = [freeCalls EXCEPT ![buf] = @ + 1]
    /\ trace' = Append(trace, LsaCall("LsaFreeReturnBuffer", buf, err))

\* err := lsa.LsaEnumerateLogonSessions(&cnt, &buffer); if err != nil { return nil, err }
Enumerate ==
    /\ pc = "enumerate"
    /\ \/ \E err \in EnumerateErrors :
            /\ trace' = Append(trace, LsaCall("LsaEnumerateLogonSessions", 0, err))
            /\ ret' = Returned([op |-> "GetLogonSessions", val |-> NilSlice, err |-> err])
            /\ pc' = "idle"
            /\ UNCHANGED <<cnt, buffer, native, nbuf, freeCalls>>
       \/ \E array \in LuidArrays :
            /\ HandOver(NativeArray(array))
            /\ cnt' = Len(array)
            /\ trace' = Append(trace,
                               LsaCall("LsaEnumerateLogonSessions", nbuf + 1, NoError))
            /\ pc' = "copy_luids"
            /\ UNCHANGED ret
    /\ UNCHANGED <<arg, luids, sessionData, ncalls>>

\* the slice header laid over the buffer, make, and the copying loop
CopyLuids ==
    /\ pc = "copy_luids"
    /\ luids' = CopyLUIDs(native.array, cnt)
    /\ trace' = IF cnt > 0 THEN Append(trace, BufferRead(buffer)) ELSE trace
    /\ pc' = "free_luids"
    /\ UNCHANGED <<arg, cnt, buffer, native, sessionData, ret, nbuf, ncalls, freeCalls>>

\* err = lsa.LsaFreeReturnBuffer(buffer) and the two returns after it
FreeLuids ==
    /\ pc = "free_luids"
    /\ \E err \in FreeErrors \cup {NoError} :
          /\ LsaFreeReturnBuffer(buffer, err)
          /\ LET r == ReturnAfterFree(luids, NilSlice, err)
             IN  ret' = Returned([op |-> "GetLogonSessions", val |-> r.val, err |-> r.err])
    /\ pc' = "idle"
    /\ UNCHANGED <<arg, cnt, buffer, native, luids, sessionData, nbuf, ncalls>>

\* err := lsa.LsaGetLogonSessionData(luid, &dataBuffer); if err != nil { return nil, err }
GetData ==
    /\ pc = "get"
    /\ \/ \E err \in GetDataErrors :
            /\ trace' = Append(trace, LsaCall("LsaGetLogonSessionData", 0, err))
            /\ ret' = Returned([op |-> "GetLogonSessionData", val |-> NilData, err |-> err])
            /\ pc' = "idle"
            /\ UNCHANGED <<buffer, native, nbuf, freeCalls>>
       \/ \E record \in NativeSessions :
            /\ HandOver(NativeRecord(record))
            /\ trace' = Append(trace,
                               LsaCall("LsaGetLogonSessionData", nbuf + 1, NoError))
            /\ pc' = "new_data"
            /\ UNCHANGED ret
    /\ UNCHANGED <<arg, cnt, luids, sessionData, ncalls>>

\* sessionData := newLogonSessionData(dataBuffer).  A conversion that reads
\* unmapped memory is an access violation, which ends the process.
NewData ==
    /\ pc = "new_data"
    /\ \E copyErr \in (IF native.record.Sid.isNil THEN {NoError}
                       ELSE CopySidErrors \cup {NoError}) :
          LET copied == IF native.record.Sid.isNil THEN <<>>
                        ELSE <<SidCopyCall(buffer, copyErr)>>
          IN  /\ trace' = (trace \o <<BufferRead(buffer)>>) \o copied
              /\ IF ConversionFaults(native.record)
                 THEN pc' = "crashed" /\ UNCHANGED sessionData
                 ELSE /\ pc' = "free_data"
                      /\ sessionData' = newLogonSessionData(native.record, copyErr)
    /\ UNCHANGED <<arg, cnt, buffer, native, luids, ret, nbuf, ncalls, freeCalls>>

\* err = lsa.LsaFreeReturnBuffer(uintptr(unsafe.Pointer(dataBuffer))) and the
\* two returns after it
FreeData ==
    /\ pc = "free_data"
    /\ \E err \in FreeErrors \cup {NoError} :
          /\ LsaFreeReturnBuffer(buffer, err)
          /\ LET r == ReturnAfterFree(sessionData, NilData, err)
             IN  ret' = Returned([op |-> "GetLogonSessionData", val |-> r.val, err |-> r.err])
    /\ pc' = "idle"
    /\ UNCHANGED <<arg, cnt, buffer, native, luids, sessionData, nbuf, ncalls>>

\* any caller: any sequence of calls, of at most MaxInvocations
CallGetLogonSessions ==
    /\ ncalls < MaxInvocations
    /\ Enter("GetLogonSessions", ZeroLuid)

CallGetLogonSessionData ==
    /\ ncalls < MaxInvocations
    /\ \E l \in LUIDs : Enter("GetLogonSessionData", l)

Init == PureIdle /\ LibIdle /\ NoMain

Next ==
    \/ CallGetLogonSessions /\ UNCHANGED <<pureVars, mainVars>>
    \/ CallGetLogonSessionData /\ UNCHANGED <<pureVars, mainVars>>
    \/ Enumerate /\ UNCHANGED <<pureVars, mainVars>>
    \/ CopyLuids /\ UNCHANGED <<pureVars, mainVars>>
    \/ FreeLuids /\ UNCHANGED <<pureVars, mainVars>>
    \/ GetData /\ UNCHANGED <<pureVars, mainVars>>
    \/ NewData /\ UNCHANGED <<pureVars, mainVars>>
    \/ FreeData /\ UNCHANGED <<pureVars, mainVars>>

Spec == Init /\ [][Next]_vars

(***************************************************************************)
(* The example program (func main).  mpc is its place: "start", waiting in *)
(* "sessions" or "data" for the package to return, at the head of the      *)
(* "loop", or "exited".  mcalls lists the calls it made into the package   *)
(* with the error each returned, stdout what it printed.                   *)
(***************************************************************************)
Pending == "pending"

MainCall(fn, l) == [fn |-> fn, luid |-> l, err |-> Pending]

\* the error of the call that just returned, written to its entry of mcalls
NoteReturn == [mcalls EXCEPT ![Len(mcalls)].err = ret.val.err]

\* luids, err := GetLogonSessions()
MainGetLogonSessions ==
    /\ mpc = "start"
    /\ Enter("GetLogonSessions", ZeroLuid)
    /\ mpc' = "sessions"
    /\ mcalls' = Append(mcalls, MainCall("GetLogonSessions", ZeroLuid))
    /\ UNCHANGED <<mluids, idx, exit, stdout>>

\* if err != nil { fmt.Println("GetLogonSessions:", err); os.Exit(1) }
MainSessionsReturned ==
    /\ mpc = "sessions" /\ pc = "idle" /\ ~ret.pending
    /\ mcalls' = NoteReturn
    /\ IF ret.val.err # NoError
       THEN /\ stdout' = Append(stdout, <<"GetLogonSessions:", ret.val.err>>)
            /\ exit' = Returned(1) /\ mpc' = "exited"
            /\ UNCHANGED <<mluids, idx>>
       ELSE /\ mluids' = ret.val.val.elems /\ idx' = 0 /\ mpc' = "loop"
            /\ UNCHANGED <<exit, stdout>>
    /\ UNCHANGED libVars

\* for _, luid := range luids { sd, err := GetLogonSessionData(&luid)
MainGetLogonSessionData ==
    /\ mpc = "loop" /\ idx < Len(mluids)
    /\ Enter("GetLogonSessionData", mluids[idx + 1])
    /\ mpc' = "data"
    /\ mcalls' = Append(mcalls, MainCall("GetLogonSessionData", mluids[idx + 1]))
    /\ UNCHANGED <<mluids, idx, exit, stdout>>

\* the failed session is skipped and the loop goes on
MainDataReturned_Continue ==
    /\ mpc = "data" /\ pc = "idle" /\ ~ret.pending
    /\ mcalls' = NoteReturn
    /\ stdout' = IF ret.val.err # NoError
                 THEN Append(stdout, <<"LsaGetLogonSessionData:", ret.val.err>>)
                 ELSE Append(stdout, <<"logonid:", arg, "logontype:",
                                       LogonTypeString(ret.val.val.LogonType)>>)
    /\ idx' = idx + 1 /\ mpc' = "loop"
    /\ UNCHANGED <<mluids, exit, libVars>>

\* if err != nil { fmt.Println("LsaGetLogonSessionData:", err); os.Exit(1) }
\* fmt.Printf(...) }
MainDataReturned ==
    /\ mpc = "data" /\ pc = "idle" /\ ~ret.pending
    /\ mcalls' = NoteReturn
    /\ IF ret.val.err # NoError
       THEN /\ stdout' = Append(stdout, <<"LsaGetLogonSessionData:", ret.val.err>>)
            /\ exit' = Returned(1) /\ mpc' = "exited"
            /\ UNCHANGED idx
       ELSE /\ stdout' = Append(stdout, <<"logonid:", arg, "logontype:",
                                          LogonTypeString(ret.val.val.LogonType)>>)
            /\ idx' = idx + 1 /\ mpc' = "loop"
            /\ UNCHANGED exit
    /\ UNCHANGED <<mluids, libVars>>

\* the end of the range: main returns and the process exits with status 0
MainReturns ==
    /\ mpc = "loop" /\ idx >= Len(mluids)
    /\ exit' = Returned(0) /\ mpc' = "exited"
    /\ UNCHANGED <<mluids, idx, mcalls, stdout, libVars>>

\* an access violation inside the package: the Go runtime ends the process
\* with status 2
MainCrashes ==
    /\ mpc \in {"sessions", "data"} /\ pc = "crashed"
    /\ exit' = Returned(2) /\ mpc' = "exited"
    /\ UNCHANGED <<mluids, idx, mcalls, stdout, libVars>>

InitMain ==
    /\ PureIdle /\ LibIdle
    /\ mpc = "start" /\ mluids = <<>> /\ idx = 0 /\ exit = NotYet
    /\ mcalls = <<>> /\ stdout = <<>>

NextMain ==
    \/ MainGetLogonSessions /\ UNCHANGED pureVars
    \/ MainSessionsReturned /\ UNCHANGED pureVars
    \/ MainGetLogonSessionData /\ UNCHANGED pureVars
    \/ MainDataReturned /\ UNCHANGED pureVars
    \/ MainReturns /\ UNCHANGED pureVars
    \/ MainCrashes /\ UNCHANGED pureVars
    \/ Enumerate /\ UNCHANGED <<pureVars, mainVars>>
    \/ CopyLuids /\ UNCHANGED <<pureVars, mainVars>>
    \/ FreeLuids /\ UNCHANGED <<pureVars, mainVars>>
    \/ GetData /\ UNCHANGED <<pureVars, mainVars>>
    \/ NewData /\ UNCHANGED <<pureVars, mainVars>>
    \/ FreeData /\ UNCHANGED <<pureVars, mainVars>>

SpecMain == InitMain /\ [][NextMain]_vars

(***************************************************************************)
(* The pure functions, each applied to an input drawn at the start.        *)
(***************************************************************************)
InitTime ==
    /\ nsec \in TimeInputs /\ tm = NotYet
    /\ lt = <<0, 0>> /\ ltName = NotYet
    /\ lsaStr = NullString /\ goStr = NotYet
    /\ LibIdle /\ NoMain

CallTimeFromUint64 ==
    /\ tm = NotYet
    /\ tm' = Returned(timeFromUint64(nsec))
    /\ UNCHANGED <<nsec, lt, ltName, lsaStr, goStr, libVars, mainVars>>

NextTime == CallTimeFromUint64

SpecTime == InitTime /\ [][NextTime]_vars

\* two logon types, to compare their names
InitLogonType ==
    /\ lt \in LogonTypeInputs \X LogonTypeInputs /\ ltName = NotYet
    /\ nsec = ZeroWord /\ tm = NotYet
    /\ lsaStr = NullString /\ goStr = NotYet
    /\ LibIdle /\ NoMain

CallLogonTypeString ==
    /\ ltName = NotYet
    /\ ltName' = Returned(<<LogonTypeString(lt[1]), LogonTypeString(lt[2])>>)
    /\ UNCHANGED <<nsec, tm, lt, lsaStr, goStr, libVars, mainVars>>

NextLogonType == CallLogonTypeString

SpecLogonType == InitLogonType /\ [][NextLogonType]_vars

InitString ==
    /\ lsaStr \in LsaStrings /\ goStr = NotYet
    /\ nsec = ZeroWord /\ tm = NotYet
    /\ lt = <<0, 0>> /\ ltName = NotYet
    /\ LibIdle /\ NoMain

CallStringFromLSAString ==
    /\ goStr = NotYet
    /\ goStr' = Returned(stringFromLSAString(lsaStr))
    /\ UNCHANGED <<nsec, tm, lt, ltName, lsaStr, libVars, mainVars>>

NextString == CallStringFromLSAString

SpecString == InitString /\ [][NextString]_vars

(***************************************************************************)
(* Claims about the pure functions                                         *)
(***************************************************************************)

\* C6: timeFromUint64 maps 0 and 2^63-1 to the zero time and every other
\* file time v to the instant (v - 116444736000000000) * 100 ns from the Unix
\* epoch, with no wrap-around of the subtraction or of the multiplication.
C6_TimeExact ==
    ~tm.pending =>
        IF nsec = ZeroWord \/ nsec = NeverTime
        THEN tm.val = ZeroTime
        ELSE /\ ~tm.val.isZero
             /\ SignExtend(tm.val.unixNano, WideLimbs) = ExactUnixNano(nsec)

\* the 13 names the claim lists, by value
C7_Names ==
    (0 :> "System") @@ (2 :> "Interactive") @@ (3 :> "Network") @@ (4 :> "Batch")
    @@ (5 :> "Service") @@ (6 :> "Proxy") @@ (7 :> "Unlock")
    @@ (8 :> "NetworkCleartext") @@ (9 :> "NewCredentials")
    @@ (10 :> "RemoteInteractive") @@ (11 :> "CachedInteractive")
    @@ (12 :> "CachedRemoteInteractive") @@ (13 :> "CachedUnlock")

\* C7: LogonType.String gives each of the 13 defined logon types its own
\* name, two different defined types never the same name, and every other
\* value n, 1 and the values above 13 included, "Undefined LogonType(n)".
C7_LogonTypeNames ==
    ~ltName.pending =>
        /\ \A i \in 1..2 :
              IF lt[i] \in DOMAIN C7_Names
              THEN ltName.val[i] = C7_Names[lt[i]]
              ELSE ltName.val[i] = "Undefined LogonType(" \o FormatDecimal(lt[i]) \o ")"
        /\ (lt[1] # lt[2] /\ lt[1] \in DOMAIN C7_Names /\ lt[2] \in DOMAIN C7_Names)
              => ltName.val[1] # ltName.val[2]

\* a defined type and a value above 13 have been named
C7_Witness ==
    /\ ~ltName.pending
    /\ lt = <<LogonTypeCachedUnlock, LogonTypeCachedUnlock + 1>>
    /\ ltName.val = <<"CachedUnlock", "Undefined LogonType(14)">>

\* the units of s that lie inside its Length bytes, up to the first NUL
RECURSIVE UpToNul(_)
UpToNul(units) ==
    IF units = <<>> \/ units[1] = 0 THEN <<>>
    ELSE <<units[1]>> \o UpToNul(Tail(units))

\* C9: stringFromLSAString returns "" for a null Buffer or a Length of 0,
\* otherwise decodes the Length / 2 code units the descriptor describes, up
\* to the first NUL, and never reads memory beyond the first Length bytes.
C9_StringWithinLength ==
    ~goStr.pending =>
        IF lsaStr.Buffer = NullBuffer \/ lsaStr.Length = 0
        THEN goStr.val.runes = <<>> /\ goStr.val.unitsRead = 0
        ELSE /\ ~goStr.val.fault
             /\ goStr.val.unitsRead * 2 <= lsaStr.Length
             /\ goStr.val.runes =
                   Utf16Decode(UpToNul(SubSeq(lsaStr.mem, 1, lsaStr.Length \div 2)))

(***************************************************************************)
(* Claims about GetLogonSessions and GetLogonSessionData                   *)
(***************************************************************************)
LsaFunctions ==
    {"LsaEnumerateLogonSessions", "LsaGetLogonSessionData", "LsaFreeReturnBuffer"}

RetrievalFunctions == {"LsaEnumerateLogonSessions", "LsaGetLogonSessionData"}

\* a call of the package has returned
Completed == pc = "idle" /\ ~ret.pending

\* the places in trace of the calls of the functions F
CallsOf(F) == { i \in 1..Len(trace) : trace[i].ev \in F }

FreeCallsOn(b) ==
    { i \in 1..Len(trace) : trace[i].ev = "LsaFreeReturnBuffer" /\ trace[i].buf = b }

FailedLsaCalls == { i \in CallsOf(LsaFunctions) : trace[i].err # NoError }

\* the error of the first LSA call that failed, nil if none did
FirstLsaError ==
    IF FailedLsaCalls = {} THEN NoError
    ELSE trace[CHOOSE i \in FailedLsaCalls : \A j \in FailedLsaCalls : i <= j].err

SidCopyFailed ==
    \E i \in 1..Len(trace) : trace[i].ev = "Sid.Copy" /\ trace[i].err # NoError

\* C1: a buffer handed back by a successful retrieval call is passed to
\* LsaFreeReturnBuffer exactly once before the operation returns; after a
\* failed retrieval call LsaFreeReturnBuffer is not called; between calls
\* every buffer handed out so far has been passed to it once, none twice.
C1_FreedExactlyOnce ==
    /\ \A b \in 1..nbuf : freeCalls[b] <= 1
    /\ pc = "idle" => \A b \in 1..nbuf : freeCalls[b] = 1
    /\ Completed =>
          IF trace[1].err # NoError
          THEN CallsOf({"LsaFreeReturnBuffer"}) = {} /\ buffer = 0
          ELSE /\ buffer = trace[1].buf
               /\ Cardinality(FreeCallsOn(buffer)) = 1
               /\ CallsOf({"LsaFreeReturnBuffer"}) = FreeCallsOn(buffer)

\* three calls have returned: two that got a buffer, then one whose
\* retrieval call failed
C1_Witness ==
    /\ Completed /\ ncalls = 3 /\ nbuf = 2
    /\ freeCalls = <<1, 1>>
    /\ trace[1].err # NoError

\* C2: every invocation makes exactly one call into the LSA interface,
\* whatever its outcome, and nothing but the data transformation after it.
C2_SingleLsaCall ==
    Completed => Cardinality(CallsOf(LsaFunctions)) = 1

\* C2, amended: every invocation makes exactly one retrieval call, first of
\* all and never again; if that call failed it makes no other LSA call; if
\* it succeeded it makes one more, LsaFreeReturnBuffer, last of all.
C2_OneRetrievalThenOneFree ==
    /\ Cardinality(CallsOf(RetrievalFunctions)) <= 1
    /\ Cardinality(CallsOf({"LsaFreeReturnBuffer"})) <= 1
    /\ Completed =>
          /\ CallsOf(RetrievalFunctions) = {1}
          /\ trace[1].ev = IF ret.val.op = "GetLogonSessions"
                           THEN "LsaEnumerateLogonSessions"
                           ELSE "LsaGetLogonSessionData"
          /\ IF trace[1].err # NoError
             THEN CallsOf(LsaFunctions) = {1}
             ELSE CallsOf(LsaFunctions) = {1, Len(trace)}
                  /\ trace[Len(trace)].ev = "LsaFreeReturnBuffer"

\* a call has returned after a retrieval call, a copy and a free
C2_Witness ==
    /\ Completed
    /\ Len(trace) >= 3
    /\ trace[1].ev = "LsaGetLogonSessionData"
    /\ trace[Len(trace)].ev = "LsaFreeReturnBuffer"

\* C3: each invocation returns (non-nil, nil) or (nil, non-nil); the error
\* is that of the first LSA call that failed; when LsaFreeReturnBuffer
\* fails the marshaled data is dropped and nil returned.
C3_NoPartialFailure ==
    Completed =>
        /\ ret.val.val.isNil <=> ret.val.err # NoError
        /\ ret.val.err = FirstLsaError
        /\ \A i \in CallsOf({"LsaFreeReturnBuffer"}) :
              trace[i].err # NoError => ret.val.val.isNil /\ ret.val.err = trace[i].err

\* LsaFreeReturnBuffer failed after the session data had been marshaled
C3_Witness ==
    /\ Completed
    /\ ret.val.op = "GetLogonSessionData"
    /\ ~sessionData.isNil
    /\ ret.val.val.isNil
    /\ ret.val.err \in FreeErrors

\* whether a returned value keeps a pointer into the native buffer
PointsIntoNative(val) ==
    IF val.isNil THEN FALSE
    ELSE IF ret.val.op = "GetLogonSessions" THEN val.backing = NativeMemory
    ELSE \/ ~val.Sid.isNil /\ val.Sid.backing = NativeMemory
         \/ \E f \in StringFields : val[f].backing = NativeMemory

\* C4: the steps are allocate, copy, free: every read of the native buffer
\* comes after the retrieval call and before LsaFreeReturnBuffer, none
\* after it, and the value returned holds no reference into the buffer.
C4_CopyBeforeFree ==
    /\ \A i \in 1..Len(trace) :
          trace[i].ev = "read" =>
             /\ i > 1 /\ trace[1].ev \in RetrievalFunctions /\ trace[1].buf = trace[i].buf
             /\ \A j \in FreeCallsOn(trace[i].buf) : i < j
    /\ Completed => ~PointsIntoNative(ret.val.val)

\* session data with a SID has been returned after the buffer was freed
C4_Witness ==
    /\ Completed
    /\ ret.val.op = "GetLogonSessionData"
    /\ ret.val.err = NoError
    /\ ~ret.val.val.Sid.isNil
    /\ freeCalls[buffer] = 1
    /\ \E i \in 1..Len(trace) : trace[i].ev = "read"

\* C5: when both LSA calls succeed GetLogonSessions returns a non-nil slice
\* of length cnt whose i-th element is the i-th LUID of the native buffer.
C5_AllLuidsInOrder ==
    (Completed /\ ret.val.op = "GetLogonSessions" /\ ret.val.err = NoError) =>
        /\ ~ret.val.val.isNil
        /\ cnt = Len(native.array)
        /\ Len(ret.val.val.elems) = cnt
        /\ \A i \in 1..cnt : ret.val.val.elems[i] = native.array[i]

\* a slice of two or more LUIDs has been returned
C5_Witness ==
    /\ Completed /\ ret.val.op = "GetLogonSessions" /\ ret.val.err = NoError
    /\ cnt >= 2

\* C10: in a successful result the Sid is nil exactly when the native Sid
\* pointer is nil or the copy failed; a failed copy is not reported: the
\* buffer is still freed and, if that succeeds, the data returned with a
\* nil error.
C10_SidNilOnCopyFailure ==
    (Completed /\ ret.val.op = "GetLogonSessionData") =>
        /\ ret.val.err = NoError =>
              (ret.val.val.Sid.isNil <=> (native.record.Sid.isNil \/ SidCopyFailed))
        /\ SidCopyFailed =>
              /\ Cardinality(FreeCallsOn(buffer)) = 1
              /\ ret.val.err = trace[Len(trace)].err
              /\ ret.val.err = NoError => ~ret.val.val.isNil

\* the copy of a SID failed and the call returned data without it and no error
C10_Witness ==
    /\ Completed /\ ret.val.op = "GetLogonSessionData"
    /\ native.kind = "record" /\ ~native.record.Sid.isNil
    /\ SidCopyFailed
    /\ ret.val.err = NoError
    /\ ret.val.val.Sid.isNil

(***************************************************************************)
(* Claims about the example program                                        *)
(***************************************************************************)
Exited(status) == mpc = "exited" /\ exit = Returned(status)

\* C8: the program calls GetLogonSessions once, then GetLogonSessionData
\* once per returned LUID in order; it makes no call after one that failed
\* and then exits with status 1; it exits with status 0 only if every
\* enumerated session was queried with success.
C8_StopsAtFirstError ==
    /\ \A k \in 1..Len(mcalls) :
          /\ (mcalls[k].fn = "GetLogonSessions") <=> (k = 1)
          /\ k > 1 => /\ mcalls[k].fn = "GetLogonSessionData"
                      /\ k - 1 <= Len(mluids)
                      /\ mcalls[k].luid = mluids[k - 1]
          /\ k < Len(mcalls) => mcalls[k].err = NoError
    /\ mpc = "exited" =>
          /\ mcalls # <<>>
          /\ (mcalls[Len(mcalls)].err \notin {NoError, Pending}) <=> exit = Returned(1)
    /\ Exited(0) =>
          /\ Len(mcalls) = 1 + Len(mluids)
          /\ \A k \in 1..Len(mcalls) : mcalls[k].err = NoError

\* of two enumerated sessions the first could not be queried: the program
\* has exited with status 1 without asking for the second
C8_Witness ==
    /\ Exited(1)
    /\ Len(mluids) = 2
    /\ Len(mcalls) = 2
    /\ mcalls[2].err \in GetDataErrors
=============================================================================
